---------------------------- MODULE Spec2Model ----------------------------
(***************************************************************************)
(* dvdwrap: a FUSE filesystem that shows every DVD image directory (one    *)
(* holding VIDEO_TS) as a single read-only .mpg file, the concatenation of *)
(* the VOB segments of its largest titleset.                               *)
(*                                                                         *)
(* The model covers the titleset scan, getattr, readdir, open, read and    *)
(* release. Real paths are relative to the source root; names are          *)
(* sequences of characters so that the suffix test and the suffix removal  *)
(* are computed.                                                           *)
(***************************************************************************)
EXTENDS Integers, Sequences, FiniteSets, TLC

(* ------------------------------ constants ------------------------------ *)

MAX_VTS_MIN == 10

MAX_VTS_MAJ == 100

FILE_EXTENSION == <<".", "m", "p", "g">>

ENOENT == 2

ENOMEM == 12

(* ------------------------------- bounds -------------------------------- *)

\* majors 1..MaxMaj and minors 0..MaxMin may hold a VOB file in the real tree
MaxMaj == 3

MaxMin == 3

\* a VOB file is 0..MaxSize bytes long
MaxSize == 2

\* at most MaxFiles VOB files exist in the real tree of the scan specification
MaxFiles == 2

\* a file-read asks for 0..MaxLen bytes
MaxLen == 3

\* the source root of the listing specification holds at most MaxEntries entries
MaxEntries == 2

(* ------------------------------ real tree ------------------------------ *)

Positions == (1..MaxMaj) \X (0..MaxMin)

Sizes == 0..MaxSize

\* the real directory of the DVD image, and a real directory without VIDEO_TS
DvdName == <<"d">>

PlainName == <<"p">>

\* the source root itself, a hidden directory, a regular file, and a directory
\* whose real name ends in the suffix
RootPath == <<>>

HiddenName == <<".", "h">>

FileName == <<"f">>

MpgName == <<"q", ".", "m", "p", "g">>

\* the self-references of a directory
Dot == <<".">>

DotDot == <<".", ".">>

\* permission bits of a real file; 0222 is WriteBits
PermBits == {"ur", "uw", "ux", "gr", "gw", "gx", "or", "ow", "ox"}

WriteBits == {"uw", "gw", "ow"}

\* 0444 and 0777
Modes == { {"ur", "gr", "or"}, PermBits }

\* the type hints of a directory entry, dirent.d_type
DT_DIR == "DT_DIR"

DT_REG == "DT_REG"

DT_LNK == "DT_LNK"

DT_UNKNOWN == "DT_UNKNOWN"

\* a real entry of the source root: the hint readdir(3) gives for it, whether
\* lstat finds a directory, and whether it has a child named VIDEO_TS
Entry(d_type, dir, videots) == [d_type |-> d_type, dir |-> dir, videots |-> videots]

\* the source root that holds the DVD image directory and a plain directory
DvdRoot == (DvdName :> Entry(DT_DIR, TRUE, TRUE)) @@ (PlainName :> Entry(DT_DIR, TRUE, FALSE))

VARIABLES
    sourcepath, \* ctx->sourcepath: the real directory every real path is under
    root,     \* [names -> Entry]: the real entries of the source root
    vob,      \* [present positions -> Sizes]: VIDEO_TS/VTS_mm_n.VOB of DvdName
    ifo,      \* BOOLEAN: VIDEO_TS/VIDEO_TS.IFO of DvdName exists
    fdtab,    \* the process's descriptors, by descriptor number, never reused
    fh,       \* sequence of handle records or NoHandle: fi->fh of each session
    nsess,    \* number of handles allocated so far; the next session is nsess + 1
    ret,      \* the last completed call and what it returned
    rd        \* [Threads -> the frame of a running dvdwrap_read or Idle]

vars == <<sourcepath, root, vob, ifo, fdtab, fh, nsess, ret, rd>>

\* no call has completed yet, or a file-read is under way
NoRet == [op |-> "none"]


(* -------------------------------- paths -------------------------------- *)

\* the suffix test of a classification by number: one or two digits and the suffix
EndsWithExtension_numeric(path) ==
    /\ Len(path) \in {Len(FILE_EXTENSION) + 1, Len(FILE_EXTENSION) + 2}
    /\ SubSeq(path, Len(path) - Len(FILE_EXTENSION) + 1, Len(path)) = FILE_EXTENSION
    /\ \A i \in 1..(Len(path) - Len(FILE_EXTENSION)) :
           path[i] \in {"0", "1", "2", "3", "4", "5", "6", "7", "8", "9"}

\* strcmp(&targetpath[strlen(targetpath) - strlen(FILE_EXTENSION)], FILE_EXTENSION) == 0
EndsWithExtension(path) ==
    /\ Len(path) >= Len(FILE_EXTENSION)
    /\ SubSeq(path, Len(path) - Len(FILE_EXTENSION) + 1, Len(path)) = FILE_EXTENSION

\* targetpath[strlen(targetpath) - strlen(FILE_EXTENSION)] = '\0'
StripExtension(path) == SubSeq(path, 1, Len(path) - Len(FILE_EXTENSION))

\* lstat("<target>/VIDEO_TS"): the entry exists and has that child
HasVideoTs(target) == target \in DOMAIN root /\ root[target].videots

\* lstat("<target>/VIDEO_TS/VTS_%02d_%01d.VOB"): the size, or a failure
LstatVob(target, maj, min) ==
    IF target = DvdName /\ HasVideoTs(target) /\ <<maj, min>> \in DOMAIN vob
    THEN [ok |-> TRUE, st_size |-> vob[<<maj, min>>]]
    ELSE [ok |-> FALSE, st_size |-> 0]

\* lstat("<target>/VIDEO_TS/VIDEO_TS.IFO")
LstatIfo(target) == target = DvdName /\ HasVideoTs(target) /\ ifo

\* lstat of a passthrough path
LstatReal(target) == target = RootPath \/ target \in DOMAIN root

(* ------------------------ dvdwrap_scan_videots ------------------------- *)

\* ScanMinors with titlesize[maj] = st.st_size in the place of +=
RECURSIVE ScanMinors_assign(_, _, _, _)
ScanMinors_assign(target, maj, min, titlesize) ==
    IF min >= MAX_VTS_MIN THEN [min |-> min, titlesize |-> titlesize]
    ELSE LET st == LstatVob(target, maj, min) IN
         IF ~st.ok THEN [min |-> min, titlesize |-> titlesize]
         ELSE ScanMinors_assign(target, maj, min + 1, st.st_size)

\* the inner loop: for (min = 1; min < MAX_VTS_MIN; min++), from a given minor
\* on; the result is the minor the loop stopped at and titlesize[maj]
RECURSIVE ScanMinors(_, _, _, _)
ScanMinors(target, maj, min, titlesize) ==
    IF min >= MAX_VTS_MIN THEN [min |-> min, titlesize |-> titlesize]
    ELSE LET st == LstatVob(target, maj, min) IN
         IF ~st.ok THEN [min |-> min, titlesize |-> titlesize]
         ELSE ScanMinors(target, maj, min + 1, titlesize + st.st_size)

\* the minor index the scan of a titleset starts at: the menu, VTS_nn_0, is skipped
FirstMinor == 1

\* a scan that a major with fewer than two segments ends
NoMoreTitlesets_offbyone(min) == min <= 2

\* if (min == 1) break: a major without VTS_nn_1.VOB ends the scan
NoMoreTitlesets(min) == min = 1

\* a scan that keeps the first titleset it finds
Longer_first(titlesize, longest_size) == titlesize > 0 /\ longest_size = 0

\* a comparison that lets a later titleset of the same size take over
Longer_orequal(titlesize, longest_size) == titlesize >= longest_size

\* if (titlesize[maj] > longest_size)
Longer(titlesize, longest_size) == titlesize > longest_size

\* the outer loop: for (maj = 1; maj < MAX_VTS_MAJ; maj++), from a given major on
RECURSIVE ScanMajors(_, _, _, _)
ScanMajors(target, maj, longest_maj, longest_size) ==
    IF maj >= MAX_VTS_MAJ
    THEN [longest_maj |-> longest_maj, longest_size |-> longest_size]
    ELSE LET r == ScanMinors(target, maj, FirstMinor, 0) IN
         IF NoMoreTitlesets(r.min)
         THEN [longest_maj |-> longest_maj, longest_size |-> longest_size]
         ELSE IF Longer(r.titlesize, longest_size)
              THEN ScanMajors(target, maj + 1, maj, r.titlesize)
              ELSE ScanMajors(target, maj + 1, longest_maj, longest_size)

\* a scan that reports success also when it selected no titleset
dvdwrap_scan_videots_always(target) ==
    LET r == ScanMajors(target, 1, 0, 0) IN
    [rc |-> 0, vts_maj |-> r.longest_maj, total_size |-> r.longest_size]

dvdwrap_scan_videots(target) ==
    LET r == ScanMajors(target, 1, 0, 0) IN
    IF r.longest_maj # 0
    THEN [rc |-> 0, vts_maj |-> r.longest_maj, total_size |-> r.longest_size]
    ELSE [rc |-> -1, vts_maj |-> 0, total_size |-> 0]

(* ----------------------------- descriptors ----------------------------- *)

\* fi->fh == 0
NoHandle == [vts |-> <<>>, total_size |-> 0]

\* calloc(1, sizeof(dvdwrap_fh_t)): vts[0..MAX_VTS_MIN-1], all zero
ZeroHandle ==
    [vts |-> [i \in 0..(MAX_VTS_MIN - 1) |-> [fd |-> 0, size |-> 0]], total_size |-> 0]

OpenFds(tab) == {i \in DOMAIN tab : tab[i].open}

\* an open that makes no descriptor of its own where the file is open already
OpenFd_shared(tab, maj, min, sess) ==
    IF \E i \in DOMAIN tab : tab[i].open /\ tab[i].maj = maj /\ tab[i].min = min
    THEN tab
    ELSE Append(tab, [maj |-> maj, min |-> min, pos |-> 0, open |-> TRUE,
                      closes |-> 0, sess |-> sess])

\* open(vtspath, O_RDONLY): a new descriptor, positioned at 0
OpenFd(tab, maj, min, sess) ==
    Append(tab, [maj |-> maj, min |-> min, pos |-> 0, open |-> TRUE,
                 closes |-> 0, sess |-> sess])

\* a close that closes every descriptor open on the same file
CloseFd_samefile(tab, fd) ==
    IF fd \in DOMAIN tab
    THEN [i \in DOMAIN tab |->
             IF tab[i].maj = tab[fd].maj /\ tab[i].min = tab[fd].min /\ tab[i].open
             THEN [tab[i] EXCEPT !.open = FALSE, !.closes = @ + 1]
             ELSE tab[i]]
    ELSE tab

\* close(fd): EBADF, and no effect, for a number that is no open descriptor
CloseFd(tab, fd) ==
    IF fd \in DOMAIN tab
    THEN [tab EXCEPT ![fd].open = FALSE, ![fd].closes = @ + 1]
    ELSE tab

(* --------------------------- dvdwrap_release --------------------------- *)

\* if (private->vts[min].size): which entries of the table release closes
Closable(entry) == entry.size # 0

\* for (min = 1; min < MAX_VTS_MIN; min++) ... close(private->vts[min].fd)
RECURSIVE ReleaseLoop(_, _, _)
ReleaseLoop(private, min, tab) ==
    IF min >= MAX_VTS_MIN THEN tab
    ELSE IF Closable(private.vts[min])
         THEN ReleaseLoop(private, min + 1, CloseFd(tab, private.vts[min].fd))
         ELSE ReleaseLoop(private, min + 1, tab)

dvdwrap_release(h) ==
    /\ h \in DOMAIN fh
    /\ fh[h] # NoHandle
    /\ \A t \in DOMAIN rd : rd[t].pc = "idle" \/ rd[t].h # h
    /\ fdtab' = ReleaseLoop(fh[h], 1, fdtab)
    /\ fh' = [fh EXCEPT ![h] = NoHandle]
    /\ ret' = [op |-> "release", h |-> h, rc |-> -ENOENT]
    /\ UNCHANGED <<sourcepath, root, vob, ifo, nsess, rd>>

(* ----------------------------- dvdwrap_open ---------------------------- *)

\* OpenLoop with continue in the place of break: a missing minor is skipped
RECURSIVE OpenLoop_skipgap(_, _, _, _, _, _, _)
OpenLoop_skipgap(target, maj, min, private, tab, failAt, sess) ==
    IF min >= MAX_VTS_MIN THEN [failed |-> FALSE, private |-> private, tab |-> tab]
    ELSE LET st == LstatVob(target, maj, min) IN
         IF ~st.ok
         THEN OpenLoop_skipgap(target, maj, min + 1, private, tab, failAt, sess)
         ELSE IF min = failAt
              THEN [failed |-> TRUE,
                    private |-> [private EXCEPT !.vts[min].fd = -1],
                    tab |-> tab]
              ELSE LET tab2 == OpenFd(tab, maj, min, sess) IN
                   OpenLoop_skipgap(target, maj, min + 1,
                            [private EXCEPT !.vts[min] = [fd |-> Len(tab2),
                                                          size |-> st.st_size],
                                            !.total_size = @ + st.st_size],
                            tab2, failAt, sess)

\* the loop that opens the VOBs of titleset maj, from a given minor on; open(2)
\* of minor failAt fails. The result says whether the loop left by goto fail.
RECURSIVE OpenLoop(_, _, _, _, _, _, _)
OpenLoop(target, maj, min, private, tab, failAt, sess) ==
    IF min >= MAX_VTS_MIN THEN [failed |-> FALSE, private |-> private, tab |-> tab]
    ELSE LET st == LstatVob(target, maj, min) IN
         IF ~st.ok THEN [failed |-> FALSE, private |-> private, tab |-> tab]
         ELSE IF min = failAt
              THEN [failed |-> TRUE,
                    private |-> [private EXCEPT !.vts[min].fd = -1],
                    tab |-> tab]
              ELSE LET tab2 == OpenFd(tab, maj, min, sess) IN
                   OpenLoop(target, maj, min + 1,
                            [private EXCEPT !.vts[min] = [fd |-> Len(tab2),
                                                          size |-> st.st_size],
                                            !.total_size = @ + st.st_size],
                            tab2, failAt, sess)

OpenRet(path, rc, sess) ==
    [op |-> "open", path |-> path, rc |-> rc, sess |-> sess, before |-> OpenFds(fdtab)]

dvdwrap_open(path, oom, failAt) ==
    /\ nsess < Len(fh)
    /\ LET target == StripExtension(path)
           scan == dvdwrap_scan_videots(target)
           h == nsess + 1
       IN
       IF ~EndsWithExtension(path) \/ scan.rc < 0
       THEN /\ ret' = OpenRet(path, -ENOENT, 0)
            /\ UNCHANGED <<fdtab, fh, nsess>>
       ELSE IF oom
       THEN /\ ret' = OpenRet(path, -ENOMEM, 0)
            /\ UNCHANGED <<fdtab, fh, nsess>>
       ELSE LET r == OpenLoop(target, scan.vts_maj, 1, ZeroHandle, fdtab, failAt, h) IN
            /\ nsess' = h
            /\ IF r.failed
               THEN \* fail: dvdwrap_release(NULL, fi)
                    /\ fdtab' = ReleaseLoop(r.private, 1, r.tab)
                    /\ fh' = [fh EXCEPT ![h] = NoHandle]
                    /\ ret' = OpenRet(path, -ENOENT, h)
               ELSE /\ fdtab' = r.tab
                    /\ fh' = [fh EXCEPT ![h] = r.private]
                    /\ ret' = OpenRet(path, 0, h)
    /\ UNCHANGED <<sourcepath, root, vob, ifo, rd>>

(* --------------------------- dvdwrap_getattr --------------------------- *)

\* stbuf->st_mode &= ~0222
ClearWriteBits(mode) == mode \ WriteBits

\* the mode reported for the synthetic file: that of VIDEO_TS.IFO, as lstat gave it
SyntheticMode(mode) == mode

\* mode: the permission bits of the real file that lstat finds
dvdwrap_getattr(path, mode) ==
    /\ IF EndsWithExtension(path)
       THEN LET target == StripExtension(path)
                scan == dvdwrap_scan_videots(target)
            IN
            IF LstatIfo(target)
            THEN IF scan.rc = 0
                 THEN ret' = [op |-> "getattr", path |-> path, rc |-> 0,
                              synthetic |-> TRUE, st_size |-> scan.total_size,
                              st_mode |-> SyntheticMode(mode), real_mode |-> mode]
                 ELSE ret' = [op |-> "getattr", path |-> path, rc |-> -ENOENT,
                              synthetic |-> TRUE, st_size |-> 0,
                              st_mode |-> {}, real_mode |-> {}]
            ELSE ret' = [op |-> "getattr", path |-> path, rc |-> -ENOENT,
                         synthetic |-> TRUE, st_size |-> 0,
                         st_mode |-> {}, real_mode |-> {}]
       ELSE IF ~LstatReal(path)
            THEN ret' = [op |-> "getattr", path |-> path, rc |-> -ENOENT,
                         synthetic |-> FALSE, st_size |-> 0,
                         st_mode |-> {}, real_mode |-> {}]
            ELSE ret' = [op |-> "getattr", path |-> path, rc |-> 0,
                         synthetic |-> FALSE, st_size |-> 0,
                         st_mode |-> ClearWriteBits(mode), real_mode |-> mode]
    /\ UNCHANGED <<sourcepath, root, vob, ifo, fdtab, fh, nsess, rd>>

(* --------------------------- dvdwrap_readdir --------------------------- *)

\* opendir(targetpath): of the real directories only the source root is listed
Opendir(path) == path = RootPath

\* what readdir(3) returns for the source root: its entries and the two
\* self-references
Dirents == DOMAIN root \cup {Dot, DotDot}

\* filler(buf, name, NULL, 0)
Filler(buf, name) == buf \cup {name}

\* the body of the loop for an entry whose type hint is never trusted: an
\* entry of unknown type is taken for a non-directory
ListEntry_nofallback(buf, name) ==
    IF name[1] = "." THEN buf
    ELSE IF root[name].d_type # DT_DIR THEN buf
    ELSE IF ~HasVideoTs(name) THEN Filler(buf, name)
    ELSE Filler(buf, name \o FILE_EXTENSION)

\* the body of while ((dir = readdir(d)) != NULL) for one entry
ListEntry(buf, name) ==
    IF name[1] = "." THEN buf                                   \* hidden
    ELSE IF root[name].d_type # DT_DIR /\ root[name].d_type # DT_UNKNOWN
         THEN buf                                               \* not a dir
    ELSE IF root[name].d_type # DT_DIR /\ ~LstatReal(name)
         THEN buf                                               \* stat failed
    ELSE IF root[name].d_type # DT_DIR /\ ~root[name].dir
         THEN buf                                               \* not a dir
    ELSE IF ~HasVideoTs(name) THEN Filler(buf, name)
    ELSE Filler(buf, name \o FILE_EXTENSION)

\* the loop over the entries, in whatever order readdir(3) gives them
RECURSIVE ReaddirLoop(_, _)
ReaddirLoop(buf, names) ==
    IF names = {} THEN buf
    ELSE LET name == CHOOSE n \in names : TRUE IN
         ReaddirLoop(ListEntry(buf, name), names \ {name})

\* the names dvdwrap_readdir fills in for a path
Listing(path) ==
    LET buf == Filler(Filler({}, Dot), DotDot) IN
    IF Opendir(path) THEN ReaddirLoop(buf, Dirents) ELSE buf

dvdwrap_readdir(path) ==
    /\ ret' = [op |-> "readdir", path |-> path, rc |-> 0, names |-> Listing(path)]
    /\ UNCHANGED <<sourcepath, root, vob, ifo, fdtab, fh, nsess, rd>>

(* ----------------------------- dvdwrap_read ----------------------------- *)

Idle == [pc |-> "idle", h |-> 0, size |-> 0, offset |-> 0, total |-> 0,
         buf |-> <<>>, min |-> 0, thissize |-> 0]

\* byte p of VTS_maj_min.VOB: every byte of the real tree is distinct
Byte(maj, min, p) == <<maj, min, p>>

\* a descriptor that delivers the bytes one past its position
FdData_shifted(entry, n) == [i \in 1..n |-> Byte(entry.maj, entry.min, entry.pos + i)]

\* the n bytes a descriptor delivers from its current position
FdData(entry, n) == [i \in 1..n |-> Byte(entry.maj, entry.min, entry.pos + i - 1)]

ReadRet(t, f, rc, buf) ==
    [op |-> "read", t |-> t, h |-> f.h, size |-> f.size, offset |-> f.offset - f.total,
     rc |-> rc, buf |-> buf]

\* an end-of-file test that lets the offset just past the last byte through
AtEof_strict(offset, total_size) == offset > total_size

\* if (offset >= private->total_size) return 0
AtEof(offset, total_size) == offset >= total_size

\* entry of dvdwrap_read and its initial sanity check
ReadCall(t, h, size, offset) ==
    /\ rd[t].pc = "idle"
    /\ h \in DOMAIN fh
    /\ fh[h] # NoHandle
    /\ LET f == [Idle EXCEPT !.h = h, !.size = size, !.offset = offset] IN
       IF AtEof(offset, fh[h].total_size)
       THEN /\ ret' = ReadRet(t, f, 0, <<>>)
            /\ UNCHANGED rd
       ELSE /\ rd' = [rd EXCEPT ![t] = [f EXCEPT !.pc = "loop"]]
            /\ ret' = NoRet
    /\ UNCHANGED <<sourcepath, root, vob, ifo, fdtab, fh, nsess>>

\* Locate without thisoffset -= private->vts[min].size
RECURSIVE Locate_nosubtract(_, _, _)
Locate_nosubtract(private, min, thisoffset) ==
    IF min >= MAX_VTS_MIN THEN [min |-> min, thisoffset |-> thisoffset]
    ELSE IF thisoffset < private.vts[min].size
         THEN [min |-> min, thisoffset |-> thisoffset]
         ELSE Locate_nosubtract(private, min + 1, thisoffset)

\* for (min = 1; min < MAX_VTS_MIN; min++): the segment holding thisoffset, and
\* thisoffset made local to it
RECURSIVE Locate(_, _, _)
Locate(private, min, thisoffset) ==
    IF min >= MAX_VTS_MIN THEN [min |-> min, thisoffset |-> thisoffset]
    ELSE IF thisoffset < private.vts[min].size
         THEN [min |-> min, thisoffset |-> thisoffset]
         ELSE Locate(private, min + 1, thisoffset - private.vts[min].size)

\* if (thissize > private->vts[min].size - thisoffset) thissize = ...
ClampSize(thissize, segsize, thisoffset) ==
    IF thissize > segsize - thisoffset THEN segsize - thisoffset ELSE thissize

\* a turn of the loop that leaves the descriptor where the last read left it
ReadSeek_noseek(t) ==
    /\ rd[t].pc = "loop"
    /\ LET f == rd[t]
           private == fh[f.h]
           loc == Locate(private, 1, f.offset)
       IN
       IF ~(f.total < f.size) \/ loc.min = MAX_VTS_MIN
       THEN /\ ret' = ReadRet(t, f, f.total, f.buf)
            /\ rd' = [rd EXCEPT ![t] = Idle]
            /\ UNCHANGED fdtab
       ELSE /\ rd' = [rd EXCEPT ![t].pc = "read", ![t].min = loc.min,
                                ![t].thissize = ClampSize(f.size - f.total,
                                                          private.vts[loc.min].size,
                                                          loc.thisoffset)]
            /\ UNCHANGED <<fdtab, ret>>
    /\ UNCHANGED <<sourcepath, root, vob, ifo, fh, nsess>>

\* one turn of while (total < size) up to and including lseek
ReadSeek(t) ==
    /\ rd[t].pc = "loop"
    /\ LET f == rd[t]
           private == fh[f.h]
           loc == Locate(private, 1, f.offset)
       IN
       IF ~(f.total < f.size) \/ loc.min = MAX_VTS_MIN
       THEN \* the loop ends: return total
            /\ ret' = ReadRet(t, f, f.total, f.buf)
            /\ rd' = [rd EXCEPT ![t] = Idle]
            /\ UNCHANGED fdtab
       ELSE /\ fdtab' = [fdtab EXCEPT ![private.vts[loc.min].fd].pos = loc.thisoffset]
            /\ rd' = [rd EXCEPT ![t].pc = "read", ![t].min = loc.min,
                                ![t].thissize = ClampSize(f.size - f.total,
                                                          private.vts[loc.min].size,
                                                          loc.thisoffset)]
            /\ UNCHANGED ret
    /\ UNCHANGED <<sourcepath, root, vob, ifo, fh, nsess>>

\* what read(fd, buf, thissize) may return on a descriptor with avail bytes left:
\* all it can ("full"), fewer but at least one ("short"), none, or an error
ReadOutcomes(thissize, avail) ==
    LET full == IF thissize < avail THEN thissize ELSE avail IN
    {full} \cup 0..(full - 1) \cup {-1}

\* counters that advance by twice the bytes read
Advance_twice(x, rc) == x + rc + rc

\* offset += rc; total += rc
Advance(x, rc) == x + rc

\* a read error reported as a short read: return total
ErrorReturn_short(rc, total) == total

\* if (rc < 0) return rc
ErrorReturn(rc, total) == rc

\* rc = read(fd, buf, thissize) and the rest of the turn; buf in the result is
\* what the call wrote into the caller's buffer
ReadRead(t) ==
    /\ rd[t].pc = "read"
    /\ LET f == rd[t]
           fd == fh[f.h].vts[f.min].fd
           entry == fdtab[fd]
           filesize == vob[<<entry.maj, entry.min>>]
           avail == IF entry.pos < filesize THEN filesize - entry.pos ELSE 0
       IN
       \E rc \in ReadOutcomes(f.thissize, avail) :
           IF rc < 0
           THEN /\ ret' = ReadRet(t, f, ErrorReturn(rc, f.total), f.buf)
                /\ rd' = [rd EXCEPT ![t] = Idle]
                /\ UNCHANGED fdtab
           ELSE /\ fdtab' = [fdtab EXCEPT ![fd].pos = @ + rc]
                /\ rd' = [rd EXCEPT ![t].pc = "loop",
                                    ![t].buf = @ \o FdData(entry, rc),
                                    ![t].offset = Advance(@, rc),
                                    ![t].total = Advance(@, rc)]
                /\ UNCHANGED ret
    /\ UNCHANGED <<sourcepath, root, vob, ifo, fh, nsess>>

(* --------------------------- specifications ---------------------------- *)

\* the virtual paths the calls are made on
SyntheticPath == DvdName \o FILE_EXTENSION

Paths == {SyntheticPath, PlainName}

\* every real tree with at most MaxFiles VOB files
Trees ==
    UNION { [P -> Sizes] : P \in {Q \in SUBSET Positions : Cardinality(Q) <= MaxFiles} }

\* the trees of one titleset, major 1, with segments 1..n and no menu
ReadTrees ==
    UNION { [{1} \X (1..n) -> Sizes] : n \in 1..MaxMin }

\* realpath(argv[1]); real paths are written relative to it
SourceRoot == <<"s">>

InitWith(trees, ifos, sessions, threads) ==
    /\ sourcepath = SourceRoot
    /\ root = DvdRoot
    /\ vob \in trees
    /\ ifo \in ifos
    /\ fdtab = <<>>
    /\ fh = [i \in 1..sessions |-> NoHandle]
    /\ nsess = 0
    /\ ret = NoRet
    /\ rd = [t \in 1..threads |-> Idle]

\* attribute queries, opens and releases over every real tree
Init == InitWith(Trees, BOOLEAN, 1, 0)

Getattr == \E path \in Paths, mode \in Modes : dvdwrap_getattr(path, mode)

\* calloc may fail, and so may open(2) of any one segment (failAt; 0: of none);
\* neither is reached on a path without the suffix
Open == \E path \in Paths :
            \E oom \in IF EndsWithExtension(path) THEN BOOLEAN ELSE {FALSE} :
                \E failAt \in IF oom \/ ~EndsWithExtension(path) THEN {0} ELSE 0..MaxMin :
                    dvdwrap_open(path, oom, failAt)

Release == \E h \in DOMAIN fh : dvdwrap_release(h)

Next == Getattr \/ Open \/ Release

Spec == Init /\ [][Next]_vars

\* one session on one titleset, read by one thread
InitRead == InitWith(ReadTrees, {TRUE}, 1, 1)

OpenSynthetic == \E failAt \in 0..MaxMin : dvdwrap_open(SyntheticPath, FALSE, failAt)

\* a file-read of 0..MaxLen bytes at any offset up to one past the aggregate end
ReadEnter ==
    \E t \in DOMAIN rd, h \in DOMAIN fh, size \in 0..MaxLen :
        \E offset \in 0..(fh[h].total_size + 1) : ReadCall(t, h, size, offset)

Seek == \E t \in DOMAIN rd : ReadSeek(t)

ReadSegment == \E t \in DOMAIN rd : ReadRead(t)

NextRead == OpenSynthetic \/ ReadEnter \/ Seek \/ ReadSegment \/ Release

SpecRead == InitRead /\ [][NextRead]_vars

\* a thread inside dvdwrap_read keeps running
SpecReadFair == SpecRead /\ WF_vars(Seek \/ ReadSegment)

\* the trees of one titleset of a single segment
ConcTrees == [{<<1, 1>>} -> Sizes]

\* one session on one titleset, read by two threads at once: fuse_main runs
\* multithreaded and the handlers take no lock
InitConc == InitWith(ConcTrees, {TRUE}, 1, 2)

NextConc == OpenSynthetic \/ ReadEnter \/ Seek \/ ReadSegment \/ Release

SpecConc == InitConc /\ [][NextConc]_vars

\* two sessions on the same virtual path, each read by a thread of its own
InitTwo == InitWith(ConcTrees, {TRUE}, 2, 2)

\* thread t reads the handle of session t
TwoEnter ==
    \E t \in DOMAIN rd, size \in 0..MaxLen :
        \E offset \in 0..(fh[t].total_size + 1) : ReadCall(t, t, size, offset)

NextTwo == OpenSynthetic \/ TwoEnter \/ Seek \/ ReadSegment \/ Release

SpecTwo == InitTwo /\ [][NextTwo]_vars

\* the names an entry of the source root may have
DirNames == {DvdName, PlainName, HiddenName, FileName, MpgName}

\* what an entry may be: the hint agrees with what lstat finds, or is
\* DT_UNKNOWN, and only a directory has a child
EntryKinds ==
    {e \in [d_type : {DT_DIR, DT_REG, DT_LNK, DT_UNKNOWN}, dir : BOOLEAN, videots : BOOLEAN] :
        /\ e.d_type = DT_DIR => e.dir
        /\ e.d_type \in {DT_REG, DT_LNK} => ~e.dir
        /\ e.videots => e.dir}

\* every source root of at most MaxEntries entries
RootTrees ==
    UNION { [N -> EntryKinds] : N \in {M \in SUBSET DirNames : Cardinality(M) <= MaxEntries} }

\* VIDEO_TS of DvdName holds nothing or one segment; any other VIDEO_TS is empty
DirVobs == [{} -> Sizes] \cup ConcTrees

\* the virtual paths of the listing specification: the names a listing can
\* hold, the real names, and a name with a numeric stem
NumericPath == <<"1", "2">> \o FILE_EXTENSION

DirPaths == DirNames \cup {n \o FILE_EXTENSION : n \in DirNames} \cup {NumericPath}

InitDir ==
    /\ sourcepath = SourceRoot
    /\ root \in RootTrees
    /\ vob \in DirVobs
    /\ ifo \in BOOLEAN
    /\ ~HasVideoTs(DvdName) => (vob \in [{} -> Sizes] /\ ~ifo)
    /\ fdtab = <<>>
    /\ fh = <<NoHandle>>
    /\ nsess = 0
    /\ ret = NoRet
    /\ rd = <<>>

\* a listing of the source root, or of a path that is no directory
Readdir == \E path \in {RootPath, FileName} : dvdwrap_readdir(path)

GetattrDir == \E path \in DirPaths, mode \in Modes : dvdwrap_getattr(path, mode)

OpenDir == \E path \in DirPaths : dvdwrap_open(path, FALSE, 0)

NextDir == Readdir \/ GetattrDir \/ OpenDir \/ Release

SpecDir == InitDir /\ [][NextDir]_vars

\* one session read from offset 0 onward, every read at the offset the last one
\* ended at, beside attribute queries on the same path
InitSeq == InitWith(ReadTrees, {TRUE}, 1, 1)

GetattrSynthetic == \E mode \in Modes : dvdwrap_getattr(SyntheticPath, mode)

SeqEnter ==
    \E size \in 1..MaxLen :
        \/ ret.op = "open" /\ ret.rc = 0 /\ ReadCall(1, ret.sess, size, 0)
        \/ ret.op = "read" /\ ret.rc > 0 /\ ReadCall(1, ret.h, size, ret.offset + ret.rc)

NextSeq == OpenSynthetic \/ GetattrSynthetic \/ SeqEnter \/ Seek \/ ReadSegment \/ Release

SpecSeq == InitSeq /\ [][NextSeq]_vars

\* the trees of one titleset of one or two segments
FailTrees == UNION { [{1} \X (1..n) -> Sizes] : n \in 1..2 }

\* two sessions on the same virtual path and one thread that reads either:
\* opens that fail at a segment, reads that fail, reads at the end of the file
InitFail == InitWith(FailTrees, {TRUE}, 2, 1)

NextFail == OpenSynthetic \/ ReadEnter \/ Seek \/ ReadSegment \/ Release

SpecFail == InitFail /\ [][NextFail]_vars

(* ------------------- the real tree, as the claims see it ---------------- *)

\* the minors 1..k of a major that are present without a gap
Prefix(maj) ==
    {n \in 1..(MAX_VTS_MIN - 1) : \A j \in 1..n : <<maj, j>> \in DOMAIN vob}

RECURSIVE SumSizes(_, _)
SumSizes(maj, mins) ==
    IF mins = {} THEN 0
    ELSE LET n == CHOOSE x \in mins : TRUE IN
         vob[<<maj, n>>] + SumSizes(maj, mins \ {n})

\* s1 + ... + sn of a titleset
Aggregate(maj) == SumSizes(maj, Prefix(maj))

\* the majors that hold a titleset: at least one segment, at minor 1
Titlesets == {p[1] : p \in {q \in DOMAIN vob : q[2] = 1}}

\* a titleset without a gap: every segment file of the major is in its prefix
NoGap(maj) == \A p \in DOMAIN vob : (p[1] = maj /\ p[2] >= 1) => p[2] \in Prefix(maj)

\* the majors 1..k that all hold a titleset
LeadingRun == {m \in Titlesets : \A j \in 1..m : j \in Titlesets}

\* the bytes of one real segment file, and of the segment files of a major
\* from a minor on, in ordinal order
SegmentFile(maj, min) == [i \in 1..vob[<<maj, min>>] |-> Byte(maj, min, i - 1)]

RECURSIVE Concatenation(_, _)
Concatenation(maj, min) ==
    IF <<maj, min>> \in DOMAIN vob /\ min < MAX_VTS_MIN
    THEN SegmentFile(maj, min) \o Concatenation(maj, min + 1)
    ELSE <<>>

\* the descriptors a session acquired, and the segments they are on
SessionFds(sess) == {i \in DOMAIN fdtab : fdtab[i].sess = sess}

SessionSegments(sess) == {<<fdtab[i].maj, fdtab[i].min>> : i \in SessionFds(sess)}

Min2(a, b) == IF a < b THEN a ELSE b

(* -------------------------------- claims -------------------------------- *)

\* the major of the titleset a live handle was opened on
HandleMajor(h) == fdtab[CHOOSE i \in SessionFds(h) : TRUE].maj

\* C1: a file-read at an offset in [0, total) that returns a byte count returns
\* exactly min(len, total - offset) bytes, and they are the bytes
\* [offset, offset + min(len, total - offset)) of the concatenation of the real
\* segment files of the titleset in ordinal order, whatever segment boundaries
\* the range crosses.
C1_ByteExactRead ==
    (ret.op = "read" /\ ret.rc >= 0 /\ ret.offset < fh[ret.h].total_size) =>
        LET total == fh[ret.h].total_size
            all == Concatenation(HandleMajor(ret.h), 1)
            n == Min2(ret.size, total - ret.offset)
        IN /\ total = Len(all)
           /\ ret.rc = n
           /\ ret.buf = SubSeq(all, ret.offset + 1, ret.offset + n)

\* a read that returned bytes of three segments, crossing two boundaries
C1_Witness ==
    /\ ret.op = "read"
    /\ ret.rc >= 3
    /\ Cardinality({ret.buf[i][2] : i \in DOMAIN ret.buf}) = 3

\* a successful attribute-query on the synthetic file of the DVD root
GetattrOk == ret.op = "getattr" /\ ret.path = SyntheticPath /\ ret.rc = 0

\* an attribute-query on the synthetic file that found the index file
GetattrScanned == ret.op = "getattr" /\ ret.path = SyntheticPath /\ ifo

\* a file-open on the synthetic file that returned a handle
OpenOk == ret.op = "open" /\ ret.path = SyntheticPath /\ ret.rc = 0

\* a file-open on the synthetic file that failed in the scan, before the
\* allocation of the handle
OpenScanFailed ==
    ret.op = "open" /\ ret.path = SyntheticPath /\ ret.rc = -ENOENT /\ ret.sess = 0

\* the titleset the scan selects (as the claims use it: which one, not its size)
Selected == dvdwrap_scan_videots(DvdName).vts_maj

\* C2: when the selected titleset has its segments at minors 1..n without a gap,
\* attribute-query on the synthetic file reports exactly s1 + ... + sn; a menu
\* segment at minor 0 adds nothing.
C2_AggregateSizeExact ==
    (GetattrOk /\ NoGap(Selected)) =>
        /\ Prefix(Selected) # {}
        /\ ret.st_size = SumSizes(Selected, Prefix(Selected))

\* a size reported for a titleset of two non-empty segments
C2_Witness ==
    /\ GetattrOk
    /\ Prefix(Selected) = {1, 2}
    /\ vob[<<Selected, 1>>] > 0
    /\ vob[<<Selected, 2>>] > vob[<<Selected, 1>>]

\* what the root's two titlesets a and b, of sizes A < B, must give if b is selected
ExposesLarger(a, b) ==
    (Titlesets = {a, b} /\ a # b /\ Aggregate(a) < Aggregate(b)) =>
        /\ GetattrScanned => (ret.rc = 0 /\ ret.st_size = Aggregate(b))
        /\ ~OpenScanFailed
        /\ (ret.op = "open" /\ ret.path = SyntheticPath /\ ret.sess # 0) =>
               \A s \in SessionSegments(ret.sess) : s[1] = b

\* C3 as stated: of any two titlesets, at any two distinct major numbers, the
\* one of the larger aggregate size is selected by attribute-query and file-open
\* (stated for a DVD root that holds its index file).
C3_AnyMajors == ifo => \A a, b \in 1..MaxMaj : ExposesLarger(a, b)

\* C3, amended: of two titlesets at the major numbers 1 and 2, in either order,
\* the one of the larger aggregate size B is selected: attribute-query (the index
\* file present) reports B and file-open opens descriptors on its segments only.
C3_Majors1And2 == \A a, b \in {1, 2} : ExposesLarger(a, b)

\* file-open returned a handle on titleset 2, the larger of titlesets 1 and 2
C3_Witness ==
    /\ OpenOk
    /\ Titlesets = {1, 2}
    /\ Aggregate(1) > 0
    /\ Aggregate(1) < Aggregate(2)
    /\ SessionSegments(ret.sess) = {<<2, 1>>}

\* the largest aggregate size among a set of majors (0 for none)
MaxAggregate(majors) ==
    IF majors = {} THEN 0
    ELSE Aggregate(CHOOSE m \in majors : \A k \in majors : Aggregate(k) <= Aggregate(m))

\* what the scan must give when it considers exactly the titlesets of `majors`
\* and fails only if not-found is due: `found`
ScanConsiders(majors, found) ==
    /\ GetattrScanned => /\ ret.rc = 0 <=> found
                         /\ ret.rc = 0 => ret.st_size = MaxAggregate(majors)
    /\ OpenScanFailed => ~found
    /\ OpenOk => /\ found
                 /\ fh[ret.sess].total_size = MaxAggregate(majors)

\* C4 as stated: every titleset of the range is considered, and the scan fails
\* with not-found only if no major number has a segment (stated for a DVD root
\* that holds its index file).
C4_EveryMajor == ifo => ScanConsiders(Titlesets, Titlesets # {})

\* C4, amended: the scan goes through the major numbers from 1 upward and stops
\* at the first one without a segment at minor 1; the titlesets below that point
\* are summed and considered, and the scan fails with not-found exactly when
\* none of them has a non-zero aggregate size.
C4_LeadingRun == ScanConsiders(LeadingRun, \E m \in LeadingRun : Aggregate(m) > 0)

\* attribute-query reported the size of the larger of titlesets 1 and 2 while a
\* still larger titleset lies behind a major number without segments
C4_Witness ==
    /\ GetattrOk
    /\ LeadingRun = {1}
    /\ \E m \in Titlesets \ LeadingRun : Aggregate(m) > ret.st_size

\* C5: the segments counted by the scan and opened by file-open are exactly the
\* contiguous prefix 1..k of the present minors of the selected titleset; a
\* segment above the first missing minor is neither counted nor opened.
C5_GapTruncation ==
    /\ GetattrOk => ret.st_size = SumSizes(Selected, Prefix(Selected))
    /\ OpenOk => /\ SessionSegments(ret.sess) = {Selected} \X Prefix(Selected)
                 /\ fh[ret.sess].total_size = SumSizes(Selected, Prefix(Selected))
    /\ (ret.op = "open" /\ ret.sess # 0) =>
           SessionSegments(ret.sess) \subseteq {Selected} \X Prefix(Selected)

\* file-open returned a handle on segment 1 alone where segment 3 exists and
\* segment 2 is missing
C5_Witness ==
    /\ OpenOk
    /\ SessionSegments(ret.sess) = {<<Selected, 1>>}
    /\ <<Selected, 2>> \notin DOMAIN vob
    /\ <<Selected, 3>> \in DOMAIN vob

\* C6: every successful attribute-query, on the synthetic file as on a
\* passthrough entity, reports a mode without any write permission bit.
C6_ReadOnlyModes ==
    (ret.op = "getattr" /\ ret.rc = 0) => ret.st_mode \cap WriteBits = {}

\* C7: after a file-open that failed, every descriptor that call acquired has
\* been closed exactly once, no handle remains, and the open descriptors are
\* those that were open before the call (stated for a DVD root that holds its
\* index file).
C7_FailedOpenReleasesAll ==
    (ifo /\ ret.op = "open" /\ ret.rc < 0) =>
        /\ \A i \in SessionFds(ret.sess) : ~fdtab[i].open /\ fdtab[i].closes = 1
        /\ \A h \in DOMAIN fh : h = ret.sess => fh[h] = NoHandle
        /\ OpenFds(fdtab) = ret.before

\* C8: after open, reads and release, every descriptor the open acquired has
\* been closed exactly once, zero-byte segments included.
C8_ReleaseClosesAll ==
    ret.op = "release" =>
        \A i \in SessionFds(ret.h) : ~fdtab[i].open /\ fdtab[i].closes = 1

\* C9: without VIDEO_TS/VIDEO_TS.IFO in the DVD root, attribute-query and
\* file-open on the synthetic path both fail with not-found, and the file-open
\* opens no descriptor and allocates no handle.
C9_IndexFileRequired ==
    (~ifo /\ ret.op \in {"getattr", "open"} /\ ret.path = SyntheticPath) =>
        /\ ret.rc = -ENOENT
        /\ ret.op = "open" => (ret.sess = 0 /\ fdtab = <<>>)

\* C10: every file-read call terminates, whatever each segment read returns.
C10_ReadTerminates == \A t \in {1} : (rd[t].pc # "idle") ~> (rd[t].pc = "idle")

\* the bytes [offset, offset + n) of the concatenation a handle stands for
Expected(h, offset, n) == SubSeq(Concatenation(HandleMajor(h), 1), offset + 1, offset + n)

\* the bytes a read step of thread t appended to the caller's buffer
Appended(t) == SubSeq(rd'[t].buf, Len(rd[t].buf) + 1, Len(rd'[t].buf))

\* the shared descriptor thread t is about to read stands at the byte of the
\* concatenation that t's own seek put it on
InPlace(t) ==
    LET entry == fdtab[fh[rd[t].h].vts[rd[t].min].fd] IN
    Expected(rd[t].h, rd[t].offset, 1) = <<Byte(entry.maj, entry.min, entry.pos)>>

\* C11: seek and read are two steps on the handle's shared descriptor. With two
\* reads running on one handle, a read step delivers the concatenation's bytes
\* at its offset whenever the descriptor still stands where its own seek put it;
\* nothing excludes the other read from moving the descriptor in between, and
\* then the read returns other bytes (C11_Witness).
C11_SeekReadNotAtomic ==
    [][\A t \in DOMAIN rd :
          (rd[t].pc = "read" /\ rd'[t].pc = "loop" /\ InPlace(t)) =>
              Appended(t) = Expected(rd[t].h, rd[t].offset, Len(Appended(t)))]_vars

\* a read that ran beside another read on the same handle returned bytes that
\* are not the concatenation's bytes at its offset
C11_Witness ==
    /\ ret.op = "read"
    /\ ret.rc > 0
    /\ fh[ret.h] # NoHandle
    /\ ret.buf # Expected(ret.h, ret.offset, ret.rc)

\* the descriptors a live handle holds
HandleFds(h) ==
    {fh[h].vts[m].fd : m \in {n \in 1..(MAX_VTS_MIN - 1) : fh[h].vts[n].fd \in DOMAIN fdtab}}

LiveHandles == {h \in DOMAIN fh : fh[h] # NoHandle}

\* C12: two handles from separate opens of the same virtual path hold disjoint
\* descriptors, a seek or read step of a read on one handle leaves the
\* descriptors of the other handle as they were, and under every interleaving
\* of the steps each read that returns a byte count returns exactly the bytes
\* it would return alone: min(len, total - offset) bytes of the concatenation
\* at its offset.
C12_HandlesIndependent ==
    /\ [](/\ \A g, h \in LiveHandles : g # h => HandleFds(g) \cap HandleFds(h) = {}
          /\ (ret.op = "read" /\ ret.rc >= 0 /\ ret.offset < fh[ret.h].total_size) =>
                 LET n == Min2(ret.size, fh[ret.h].total_size - ret.offset) IN
                 ret.rc = n /\ ret.buf = Expected(ret.h, ret.offset, n))
    /\ [][\A t \in DOMAIN rd :
             (rd[t].pc # "idle" /\ rd'[t] # rd[t]) =>
                 \A h \in LiveHandles \ {rd[t].h} :
                     \A i \in HandleFds(h) : fdtab'[i] = fdtab[i]]_vars

\* a read of two bytes on the first handle completed while the read on the
\* second handle stood between its seek, to another offset, and its read
C12_Witness ==
    /\ ret.op = "read"
    /\ ret.t = 1
    /\ ret.rc = 2
    /\ rd[2].pc = "read"
    /\ rd[2].offset # ret.offset
    /\ fh[1] # NoHandle

\* C13: a file-read at an offset at or past the handle's aggregate size
\* returns 0, a success and no bytes, whatever length was asked for, and the
\* call neither seeks nor reads: no descriptor changes and no read loop starts.
C13_EofReadsNothing ==
    [][(ret' # ret /\ ret'.op = "read" /\ ret'.offset >= fh[ret'.h].total_size) =>
           /\ ret'.rc = 0
           /\ ret'.buf = <<>>
           /\ fdtab' = fdtab
           /\ rd' = rd]_vars

\* a read of some bytes past the end of a non-empty file returned 0
C13_Witness ==
    /\ ret.op = "read"
    /\ ret.size = MaxLen
    /\ fh[ret.h].total_size > 0
    /\ ret.offset > fh[ret.h].total_size
    /\ ret.rc = 0

\* C14: a read step either delivers a number of bytes, zero or more, and the
\* call goes on with its counters advanced by that number, or it fails, and
\* then the call ends in that very step with a negative return value, without
\* another seek or read, whatever it had accumulated from earlier segments.
C14_ReadErrorAborts ==
    [][\A t \in DOMAIN rd :
          rd[t].pc = "read" /\ rd'[t] # rd[t] =>
              \/ /\ rd'[t].pc = "loop"
                 /\ rd'[t].total = rd[t].total + Len(Appended(t))
                 /\ rd'[t].offset = rd[t].offset + Len(Appended(t))
              \/ /\ rd'[t] = Idle
                 /\ ret'.op = "read"
                 /\ ret'.t = t
                 /\ ret'.rc < 0
                 /\ fdtab' = fdtab]_vars

\* a read failed on the second segment after the call had taken the bytes of
\* the first, and the call returned the error
C14_Witness ==
    /\ ret.op = "read"
    /\ ret.rc < 0
    /\ Len(ret.buf) > 0
    /\ \E m \in 2..(MAX_VTS_MIN - 1) : ret.offset + Len(ret.buf) = fh[ret.h].vts[1].size
                                       /\ fh[ret.h].vts[m].size > 0

\* the entries of the source root that are directories and not hidden
ShownDirs == {n \in DOMAIN root : n[1] # "." /\ root[n].dir}

HasSuffix(path) ==
    \E k \in 0..Len(path) :
        /\ Len(path) = k + 4
        /\ <<path[k + 1], path[k + 2], path[k + 3], path[k + 4]>> = <<".", "m", "p", "g">>

\* the stem of such a path
Stem(path) == [i \in 1..(Len(path) - 4) |-> path[i]]

\* a stem that parses as a non-negative integer of at most two decimal digits
NumericStem(path) ==
    /\ HasSuffix(path)
    /\ Len(Stem(path)) \in 1..2
    /\ \A i \in DOMAIN Stem(path) :
           Stem(path)[i] \in {"0", "1", "2", "3", "4", "5", "6", "7", "8", "9"}

\* the synthetic file of a stem exists: the stem is the DVD image directory, its
\* index file is there and the scan finds a titleset
SyntheticExists(stem) ==
    /\ stem = DvdName
    /\ HasVideoTs(DvdName)
    /\ ifo
    /\ \E m \in LeadingRun : Aggregate(m) > 0

\* what the calls give when `synthetic` tells the paths that are classified as
\* a synthetic file. Attribute-query on a synthetic path succeeds exactly when
\* the synthetic file of its stem exists, and reports the size of a titleset;
\* on a passthrough path it succeeds exactly when the real entity of that very
\* name exists, and reports that entity. File-open returns a handle on a
\* synthetic path only.
ClassifiedBy(synthetic) ==
    /\ (ret.op = "getattr" /\ synthetic) =>
           /\ ret.rc = 0 <=> SyntheticExists(Stem(ret.path))
           /\ ret.rc = 0 => ret.st_size = MaxAggregate(LeadingRun)
    /\ (ret.op = "getattr" /\ ~synthetic) =>
           /\ ret.rc = 0 <=> ret.path \in DOMAIN root
           /\ ret.rc = 0 => ret.st_mode = ret.real_mode \ WriteBits
    /\ ret.op = "open" =>
           /\ ret.rc = 0 => synthetic
           /\ ~synthetic => (ret.rc = -ENOENT /\ ret.sess = 0)

\* C16 as stated: a path is a synthetic file exactly when its stem is a
\* non-negative integer of at most two decimal digits; every other path, a
\* path ending in ".mpg" with another stem included, is a passthrough entity.
C16_NumericStem ==
    ret.op \in {"getattr", "open"} => ClassifiedBy(NumericStem(ret.path))

\* C16, amended: attribute-query and file-open take a path for a synthetic file
\* exactly when it ends in ".mpg", whatever the stem; the DVD root is the path
\* without the suffix. On every other path attribute-query passes through to
\* the real entity of the unmodified path and file-open returns not-found.
C16_SuffixOnly ==
    /\ ret.op \in {"getattr", "open"} => ClassifiedBy(HasSuffix(ret.path))
    /\ ret.op = "getattr" => (ret.synthetic <=> HasSuffix(ret.path))

\* attribute-query found the synthetic file of the DVD image directory, whose
\* stem is not a number
C16_Witness ==
    /\ ret.op = "getattr"
    /\ ret.path = SyntheticPath
    /\ ~NumericStem(ret.path)
    /\ ret.synthetic
    /\ ret.rc = 0
    /\ ret.st_size > 0

\* C17: attribute-query on the synthetic path never succeeds with size 0, and
\* when no major number of the DVD root has a segment at minor index 1,
\* attribute-query and file-open both return not-found, and file-open allocates
\* no handle and opens no descriptor.
C17_NoZeroLengthFile ==
    /\ GetattrOk => ret.st_size > 0
    /\ (Titlesets = {} /\ ret.op \in {"getattr", "open"} /\ ret.path = SyntheticPath) =>
           /\ ret.rc = -ENOENT
           /\ ret.op = "open" => (ret.sess = 0 /\ fdtab = <<>> /\ LiveHandles = {})

\* file-open returned not-found on a DVD root with its index file, a menu
\* segment and a segment at minor index 2, but none at minor index 1
C17_Witness ==
    /\ OpenScanFailed
    /\ ifo
    /\ Titlesets = {}
    /\ \E m \in 1..MaxMaj : {<<m, 0>>, <<m, 2>>} \subseteq DOMAIN vob

\* C18: in the unchanged tree the aggregate size a handle holds is the size a
\* scan made now returns and the size attribute-query reports for the path, and
\* a handle read from offset 0 on, every read at the offset where the last one
\* ended, delivers at every read as many bytes as it returns and meets
\* end-of-stream exactly when that many bytes were delivered in all.
C18_SizesAgree ==
    /\ \A h \in LiveHandles :
           /\ fh[h].total_size = dvdwrap_scan_videots(DvdName).total_size
           /\ HandleMajor(h) = dvdwrap_scan_videots(DvdName).vts_maj
           /\ GetattrOk => ret.st_size = fh[h].total_size
    /\ (ret.op = "read" /\ ret.rc >= 0) =>
           /\ Len(ret.buf) = ret.rc
           /\ ret.offset + ret.rc <= fh[ret.h].total_size
           /\ ret.rc = 0 => ret.offset = fh[ret.h].total_size

\* reading on met end-of-stream after more bytes than one read can ask for
C18_Witness ==
    /\ ret.op = "read"
    /\ ret.rc = 0
    /\ ret.offset = fh[ret.h].total_size
    /\ ret.offset > MaxLen

\* a completed call that failed, or read at the end of the file
Failed(r) ==
    \/ r.op = "open" /\ r.rc < 0
    \/ r.op = "read" /\ r.rc < 0
    \/ r.op = "read" /\ r.rc = 0 /\ r.size > 0

\* the session a completed call was made on (0: none yet)
SessionOf(r) == IF r.op = "open" THEN r.sess ELSE r.h

\* C19: a step that completes a failed file-open, a failed file-read or a
\* file-read at end-of-stream on one session leaves every other live handle
\* with the same segment sizes, the same aggregate size and the same
\* descriptors, open and where they stood; and no step changes the source root.
C19_FailuresAreNarrow ==
    [][/\ sourcepath' = sourcepath
       /\ (ret' # ret /\ Failed(ret')) =>
              \A h \in LiveHandles \ {SessionOf(ret')} :
                  /\ fh'[h] = fh[h]
                  /\ \A i \in HandleFds(h) : fdtab'[i] = fdtab[i] /\ fdtab'[i].open]_vars

\* the second file-open failed at its second segment and closed the descriptor
\* it had opened on the first, while the handle of the first session is live
C19_Witness ==
    /\ ret.op = "open"
    /\ ret.rc < 0
    /\ ret.sess = 2
    /\ fh[1] # NoHandle
    /\ \E i \in SessionFds(2) : fdtab[i].closes = 1
    /\ \A i \in HandleFds(1) : fdtab[i].open

\* C20: attribute-query succeeds on every name, other than "." and "..", that
\* a listing of the source root in the same tree holds (stated for the listed
\* name of the DVD image directory, whatever its VIDEO_TS holds).
C20_ListedNamesResolve ==
    (ret.op = "getattr" /\ ret.path = SyntheticPath /\ ret.path \in Listing(RootPath)) =>
        ret.rc = 0

\* the bytes a read of (offset, size) on a handle is due, by the contents of
\* the segment files alone
Due(h, offset, size) ==
    IF offset >= fh[h].total_size THEN <<>>
    ELSE Expected(h, offset, Min2(size, fh[h].total_size - offset))

\* C21: with the reads on a handle serialized, wherever the earlier reads left
\* the descriptors, every read step finds its descriptor at the byte of its own
\* offset, every read that returns a byte count returns the bytes its offset
\* and length are due by the segment contents, and no step of a read changes
\* the handle's segment sizes or aggregate size.
C21_ReadsIndependentOfHistory ==
    /\ [](/\ \A t \in DOMAIN rd : rd[t].pc = "read" => InPlace(t)
          /\ (ret.op = "read" /\ ret.rc >= 0) =>
                 ret.rc = Len(Due(ret.h, ret.offset, ret.size))
                 /\ ret.buf = Due(ret.h, ret.offset, ret.size))
    /\ [][(rd' # rd \/ ret'.op = "read") => fh' = fh]_vars

\* a read at offset 0 returned the first bytes of the file after an earlier
\* read had moved the descriptor of the first segment to its end and that of
\* a later segment off its start
C21_Witness ==
    /\ ret.op = "read"
    /\ ret.offset = 0
    /\ ret.rc = 1
    /\ ret.buf = <<Byte(1, 1, 0)>>
    /\ fh[ret.h].vts[1].size = 2
    /\ \E m \in 2..(MAX_VTS_MIN - 1) :
           /\ fh[ret.h].vts[m].fd \in DOMAIN fdtab
           /\ fdtab[fh[ret.h].vts[m].fd].pos > 0

\* the titlesets of `majors` that share the largest aggregate size
Largest(majors) == {m \in majors : Aggregate(m) = MaxAggregate(majors)}

\* what file-open must give when the scan chooses among the titlesets of
\* `majors`: where two or more share the largest aggregate size, not zero, the
\* scan succeeds and the descriptors are on the one of the lowest major number;
\* and no descriptor is ever on a titleset whose segments are all empty
LowestOfLargest(majors) ==
    /\ (Cardinality(Largest(majors)) >= 2 /\ MaxAggregate(majors) > 0) =>
           /\ ~OpenScanFailed
           /\ (ret.op = "open" /\ ret.path = SyntheticPath /\ ret.sess # 0) =>
                  \A s \in SessionSegments(ret.sess) :
                      \A m \in Largest(majors) : s[1] <= m
    /\ (ret.op = "open" /\ ret.sess # 0) =>
           \A s \in SessionSegments(ret.sess) : Aggregate(s[1]) > 0

\* C22 as stated: among all the titlesets of the DVD root, those of the largest
\* aggregate size being two or more, the one of the lowest major number is
\* selected; a titleset of empty segments is never selected (stated for a DVD
\* root that holds its index file).
C22_LowestOfAll == ifo => LowestOfLargest(Titlesets)

\* C22, amended: among the titlesets the scan considers, those at the major
\* numbers from 1 up to the first one without a segment at minor index 1, the
\* one of the lowest major number is selected when two or more share the largest
\* aggregate size; a titleset of empty segments is never selected.
C22_LowestOfConsidered == LowestOfLargest(LeadingRun)

\* file-open returned a handle on titleset 1 where titlesets 1 and 2 have the
\* same aggregate size
C22_Witness ==
    /\ OpenOk
    /\ Titlesets = {1, 2}
    /\ Aggregate(1) = Aggregate(2)
    /\ SessionSegments(ret.sess) = {<<1, 1>>}

=============================================================================
